---------------------------- MODULE Spec2Model ----------------------------
(* State-machine model of src/prompt-chain.py: the module-level client    *)
(* construction, the prompt builder get_prompt_text, the call executor     *)
(* gemini_llm_call, the orchestrator run_prompt_chain and the __main__     *)
(* block.                                                                  *)
(*                                                                         *)
(* A Python str is a sequence of tokens.  A token is either one character  *)
(* of service text (" " or "a"), or a fixed chunk of literal text of the   *)
(* source (a piece of a template, of a sentinel, of a printed line).       *)
(* Concatenation of strings is \o, so f-string interpolation is modelled   *)
(* by what it does: the literal pieces and the value, concatenated.        *)
EXTENDS Integers, Sequences, FiniteSets, TLC

VARIABLES client, entry, proc, pc, stage, customer_query, chain_context,
          results, prompts, stage_output, calls, outcome, output, printed

vars == <<client, entry, proc, pc, stage, customer_query, chain_context,
          results, prompts, stage_output, calls, outcome, output, printed>>

(* ------------------------------ bounds -------------------------------- *)
\* longest text the service returns, in characters
MaxLen == 2

(* ------------------------------ strings ------------------------------- *)
Whitespace == {" "}
Alphabet == {" ", "a"}

RECURSIVE SeqsUpTo(_)
SeqsUpTo(n) == IF n = 0 THEN {<<>>}
               ELSE LET S == SeqsUpTo(n - 1)
                    IN S \cup {Append(s, c) : s \in {t \in S : Len(t) = n - 1}, c \in Alphabet}

\* response.text of a successful call: a str, or None when the text is missing
\* (None is the marker NoText, which is not a str over Alphabet)
NoText == <<"<None>">>
RawTexts == SeqsUpTo(MaxLen)

\* str(e) of the exception an outbound call raises
ExcMessages == {<<"timed out">>, <<"429 quota exceeded">>}

\* arguments a caller passes to run_prompt_chain
Queries == {<<"q">>, <<" ", "a">>}

Contains(s, t) == \E i \in 0..(Len(s) - Len(t)) : SubSeq(s, i + 1, i + Len(t)) = t

RECURSIVE LStrip(_)
LStrip(s) == IF s = <<>> THEN s
             ELSE IF Head(s) \in Whitespace THEN LStrip(Tail(s)) ELSE s

RECURSIVE RStrip(_)
RStrip(s) == IF s = <<>> THEN s
             ELSE IF s[Len(s)] \in Whitespace THEN RStrip(SubSeq(s, 1, Len(s) - 1)) ELSE s

Strip_lstrip_only(s) == LStrip(s)

\* str.strip()
Strip(s) == RStrip(LStrip(s))

(* ------------------------- module-level names ------------------------- *)
Stages == 1..5

AVAILABLE_CATEGORIES == <<"Account Opening, Billing Issue, Account Access, Transaction Inquiry, Card Services, Account Statement, Loan Inquiry, General Information">>

NotInitialized == <<"ERROR", ": Gemini client not initialized. Check API key.">>
EmptyResponse == <<"ERROR", " in LLM call: ", "Received empty or invalid response text.">>

ExcString_fixed(msg) == <<"ERROR", " in LLM call: ">>

\* f"ERROR in LLM call: {e}"
ExcString(msg) == <<"ERROR", " in LLM call: ">> \o msg

InvalidStage == <<"Error: Invalid stage number.">>
KeyError == <<"KeyError">>

OutputKey_stage1_always(i) == "stage_1_output"

\* the key run_prompt_chain stores stage i's output under
OutputKey(i) == CASE i = 1 -> "stage_1_output"
                  [] i = 2 -> "stage_2_output"
                  [] i = 3 -> "stage_3_output"
                  [] i = 4 -> "stage_4_output"

\* the keys the template of a stage subscripts the context with
RequiredKeys(st) == CASE st = 1 -> {"customer_query"}
                      [] st = 2 -> {"stage_1_output"}
                      [] st = 3 -> {"stage_1_output", "stage_2_output"}
                      [] st = 4 -> {"stage_3_output", "stage_1_output"}
                      [] st = 5 -> {"stage_3_output", "stage_1_output", "stage_4_output"}
                      [] OTHER -> {}

Template(st, context) ==
    CASE st = 1 -> <<"S1: expert customer service analyst ... Customer Query:">>
                   \o context["customer_query"]
                   \o <<"Output Format Example: The customer wants to know ...">>
      [] st = 2 -> <<"S2: banking system classifier ... Available Categories: ">>
                   \o AVAILABLE_CATEGORIES
                   \o <<"Task: ... Summarized Intent:">>
                   \o context["stage_1_output"]
                   \o <<"Output Format Example: Transaction Inquiry, Card Services, Billing Issue">>
      [] st = 3 -> <<"S3: senior banking service manager ... Summarized Intent:">>
                   \o context["stage_1_output"]
                   \o <<"Possible Categories:">>
                   \o context["stage_2_output"]
                   \o <<"Output Format Example: Transaction Inquiry">>
      [] st = 4 -> <<"S4: customer information extractor ... Final Category:">>
                   \o context["stage_3_output"]
                   \o <<"Summarized Intent (Original Source):">>
                   \o context["stage_1_output"]
                   \o <<"Output Format Example: Transaction Date, Transaction Amount, Card Type">>
      [] st = 5 -> <<"S5: customer service agent ... Final Category:">>
                   \o context["stage_3_output"]
                   \o <<"Summarized Intent:">>
                   \o context["stage_1_output"]
                   \o <<"Additional Details Needed:">>
                   \o context["stage_4_output"]
                   \o <<"Output Format Example: Thank you for reaching out ...">>

GetPromptText_stage4_reads_stage2(st, context) ==
    IF st = 4 /\ {"stage_2_output", "stage_1_output"} \subseteq DOMAIN context
    THEN <<"S4: customer information extractor ... Final Category:">>
         \o context["stage_2_output"]
         \o <<"Summarized Intent (Original Source):">>
         \o context["stage_1_output"]
         \o <<"Output Format Example: Transaction Date, Transaction Amount, Card Type">>
    ELSE IF st \notin Stages THEN InvalidStage
    ELSE IF ~(RequiredKeys(st) \subseteq DOMAIN context) THEN KeyError
    ELSE Template(st, context)

GetPromptText_stage3_omits_stage2(st, context) ==
    IF st = 3 /\ "stage_1_output" \in DOMAIN context
    THEN <<"S3: senior banking service manager ... Summarized Intent:">>
         \o context["stage_1_output"]
         \o <<"Possible Categories:">>
         \o <<"Output Format Example: Transaction Inquiry">>
    ELSE IF st \notin Stages THEN InvalidStage
    ELSE IF ~(RequiredKeys(st) \subseteq DOMAIN context) THEN KeyError
    ELSE Template(st, context)

\* get_prompt_text(stage, context); KeyError stands for the raised exception
GetPromptText(st, context) ==
    IF st \notin Stages THEN InvalidStage
    ELSE IF ~(RequiredKeys(st) \subseteq DOMAIN context) THEN KeyError
    ELSE Template(st, context)

\* what gemini_llm_call returns when generate_content returned text
TextResult(text) ==
    IF text # NoText /\ text # <<>> /\ Strip(text) # <<>>
    THEN Strip(text)
    ELSE EmptyResponse

(* ------------------------------ __main__ ------------------------------ *)
MainQuery == <<"I cannot log into my online banking account, I keep getting a 'password incorrect' error even though I know it is right.">>

stage_names == << <<"1. Intent Interpretation">>, <<"2. Possible Categories">>,
                  <<"3. Final Category">>, <<"4. Extracted Details">>,
                  <<"5. Final Response">> >>

\* the lines the for loop over enumerate(output) prints
ResultLines(out) ==
    [k \in 1..(2 * Len(out)) |->
        IF k % 2 = 1 THEN <<"  ">> \o stage_names[(k + 1) \div 2] \o <<":">>
        ELSE <<"    -> ">> \o out[k \div 2]]

\* no outcome of an outbound call is held (none was made, or the executor has returned)
Pending == [kind |-> "pending", val |-> <<>>]

(* ------------------------------- Init --------------------------------- *)
Init ==
    /\ client = "Unbound"
    /\ entry \in {"main", "import"}
    /\ proc = "startup"
    /\ pc = "idle"
    /\ stage = 1
    /\ customer_query = <<>>
    /\ chain_context = <<>>
    /\ results = <<>>
    /\ prompts = [i \in Stages |-> <<>>]
    /\ stage_output = [i \in Stages |-> <<>>]
    /\ calls = <<>>
    /\ outcome = Pending
    /\ output = <<>>
    /\ printed = <<>>

(* ------------------------------ startup ------------------------------- *)
\* client = genai.Client() succeeds
ClientInitOk ==
    /\ proc = "startup"
    /\ client' = "Client"
    /\ proc' = "loaded"
    /\ UNCHANGED <<entry, pc, stage, customer_query, chain_context, results,
                   prompts, stage_output, calls, outcome, output, printed>>

\* genai.Client() raises: the except branch prints and sets client = None
ClientInitFail ==
    /\ proc = "startup"
    /\ \E e \in ExcMessages :
          printed' = printed \o << <<"Error initializing Gemini client: ">> \o e,
                                   <<"Please ensure the GEMINI_API_KEY environment variable is set.">> >>
    /\ client' = "None"
    /\ proc' = "loaded"
    /\ UNCHANGED <<entry, pc, stage, customer_query, chain_context, results,
                   prompts, stage_output, calls, outcome, output>>

(* ------------------------------ callers ------------------------------- *)
MainBlock_always_runs ==
    /\ proc = "loaded"
    /\ entry = "main"
    /\ printed' = printed \o << <<"--- Running Gemini Prompt Chain Example ---">>,
                                <<"Processing Query: '">> \o MainQuery \o <<"'">> >>
    /\ customer_query' = MainQuery
    /\ pc' = "start"
    /\ proc' = "in_chain"
    /\ UNCHANGED <<client, entry, stage, chain_context, results, prompts,
                   stage_output, calls, outcome, output>>

\* the __main__ block up to the call of run_prompt_chain, or its else branch
MainBlock ==
    /\ proc = "loaded"
    /\ entry = "main"
    /\ IF client # "None"
       THEN /\ printed' = printed \o << <<"--- Running Gemini Prompt Chain Example ---">>,
                                        <<"Processing Query: '">> \o MainQuery \o <<"'">> >>
            /\ customer_query' = MainQuery
            /\ pc' = "start"
            /\ proc' = "in_chain"
       ELSE /\ printed' = printed \o << <<"--- Running Gemini Prompt Chain Example ---">>,
                                        <<"Processing Query: '">> \o MainQuery \o <<"'">>,
                                        <<"Skipping execution due to Gemini client initialization error.">> >>
            /\ proc' = "exit"
            /\ UNCHANGED <<customer_query, pc>>
    /\ UNCHANGED <<client, entry, stage, chain_context, results, prompts,
                   stage_output, calls, outcome, output>>

\* an importing caller calls run_prompt_chain(customer_query)
ImportCall ==
    /\ proc = "loaded"
    /\ entry = "import"
    /\ \E q \in Queries : customer_query' = q
    /\ pc' = "start"
    /\ proc' = "in_chain"
    /\ UNCHANGED <<client, entry, stage, chain_context, results, prompts,
                   stage_output, calls, outcome, output, printed>>

(* -------------------------- run_prompt_chain -------------------------- *)
\* chain_context = {"customer_query": customer_query}; results = []
ChainStart ==
    /\ pc = "start"
    /\ chain_context' = [k \in {"customer_query"} |-> customer_query]
    /\ results' = <<>>
    /\ stage' = 1
    /\ pc' = "build"
    /\ UNCHANGED <<client, entry, proc, customer_query, prompts, stage_output,
                   calls, outcome, output, printed>>

\* prompt_i = get_prompt_text(i, chain_context); a KeyError leaves the function
BuildPrompt ==
    /\ pc = "build"
    /\ LET p == GetPromptText(stage, chain_context)
       IN IF p = KeyError
          THEN pc' = "crashed" /\ UNCHANGED prompts
          ELSE pc' = "call" /\ prompts' = [prompts EXCEPT ![stage] = p]
    /\ UNCHANGED <<client, entry, proc, stage, customer_query, chain_context,
                   results, stage_output, calls, outcome, output, printed>>

LlmCallEnter_no_guard ==
    /\ pc = "call"
    /\ calls' = Append(calls, [stage |-> stage, contents |-> prompts[stage], temperature |-> 0])
    /\ pc' = "await"
    /\ UNCHANGED <<client, entry, proc, stage, customer_query, chain_context,
                   results, prompts, stage_output, outcome, output, printed>>

\* gemini_llm_call(prompt_i): the client check, then the outbound request
LlmCallEnter ==
    /\ pc = "call"
    /\ IF client = "None"
       THEN /\ stage_output' = [stage_output EXCEPT ![stage] = NotInitialized]
            /\ pc' = "append"
            /\ UNCHANGED calls
       ELSE /\ calls' = Append(calls, [stage |-> stage, contents |-> prompts[stage], temperature |-> 0])
            /\ pc' = "await"
            /\ UNCHANGED stage_output
    /\ UNCHANGED <<client, entry, proc, stage, customer_query, chain_context,
                   results, prompts, outcome, output, printed>>

\* generate_content returns; gemini_llm_call returns the text or the sentinel
ServiceRespond ==
    /\ pc = "await"
    /\ \E text \in RawTexts \cup {NoText} :
          /\ outcome' = [kind |-> "text", val |-> text]
          /\ stage_output' = [stage_output EXCEPT ![stage] = TextResult(text)]
    /\ pc' = "append"
    /\ UNCHANGED <<client, entry, proc, stage, customer_query, chain_context,
                   results, prompts, calls, output, printed>>

ServiceRaise_retries ==
    /\ pc = "await"
    /\ \E msg \in ExcMessages :
          /\ outcome' = [kind |-> "raise", val |-> msg]
          /\ stage_output' = [stage_output EXCEPT ![stage] = ExcString(msg)]
    /\ IF Len(calls) = stage
       THEN /\ calls' = Append(calls, [stage |-> stage, contents |-> prompts[stage], temperature |-> 0])
            /\ pc' = "await"
       ELSE /\ pc' = "append"
            /\ UNCHANGED calls
    /\ UNCHANGED <<client, entry, proc, stage, customer_query, chain_context,
                   results, prompts, output, printed>>

\* generate_content raises; the except branch returns the error string
ServiceRaise ==
    /\ pc = "await"
    /\ \E msg \in ExcMessages :
          /\ outcome' = [kind |-> "raise", val |-> msg]
          /\ stage_output' = [stage_output EXCEPT ![stage] = ExcString(msg)]
    /\ pc' = "append"
    /\ UNCHANGED <<client, entry, proc, stage, customer_query, chain_context,
                   results, prompts, calls, output, printed>>

AppendResult_prepends ==
    /\ pc = "append"
    /\ results' = <<stage_output[stage]>> \o results
    /\ pc' = IF stage = 5 THEN "return" ELSE "store"
    /\ outcome' = Pending
    /\ UNCHANGED <<client, entry, proc, stage, customer_query, chain_context,
                   prompts, stage_output, calls, output, printed>>

AppendResult_exits_on_error ==
    /\ pc = "append"
    /\ results' = Append(results, stage_output[stage])
    /\ pc' = IF stage = 5 \/ Head(stage_output[stage]) = "ERROR" THEN "return" ELSE "store"
    /\ outcome' = Pending
    /\ UNCHANGED <<client, entry, proc, stage, customer_query, chain_context,
                   prompts, stage_output, calls, output, printed>>

\* stage_i_output = <the executor's return value>; results.append(stage_i_output)
AppendResult ==
    /\ pc = "append"
    /\ results' = Append(results, stage_output[stage])
    /\ pc' = IF stage = 5 THEN "return" ELSE "store"
    /\ outcome' = Pending
    /\ UNCHANGED <<client, entry, proc, stage, customer_query, chain_context,
                   prompts, stage_output, calls, output, printed>>

\* chain_context["stage_i_output"] = stage_i_output, for i in 1..4
StoreContext ==
    /\ pc = "store"
    /\ chain_context' = [k \in DOMAIN chain_context \cup {OutputKey(stage)} |->
                            IF k = OutputKey(stage) THEN stage_output[stage]
                            ELSE chain_context[k]]
    /\ stage' = stage + 1
    /\ pc' = "build"
    /\ UNCHANGED <<client, entry, proc, customer_query, results, prompts,
                   stage_output, calls, outcome, output, printed>>

\* return results
ChainReturn ==
    /\ pc = "return"
    /\ output' = results
    /\ pc' = "done"
    /\ proc' = IF entry = "main" THEN "printing" ELSE "exit"
    /\ UNCHANGED <<client, entry, stage, customer_query, chain_context, results,
                   prompts, stage_output, calls, outcome, printed>>

\* the __main__ block after the call: the heading and the five labeled results
PrintResults ==
    /\ proc = "printing"
    /\ printed' = printed \o << <<" Final Prompt Chain Output (5 Stages):">> >> \o ResultLines(output)
    /\ proc' = "exit"
    /\ UNCHANGED <<client, entry, pc, stage, customer_query, chain_context, results,
                   prompts, stage_output, calls, outcome, output>>

Next ==
    \/ ClientInitOk
    \/ ClientInitFail
    \/ MainBlock
    \/ ImportCall
    \/ ChainStart
    \/ BuildPrompt
    \/ LlmCallEnter
    \/ ServiceRespond
    \/ ServiceRaise
    \/ AppendResult
    \/ StoreContext
    \/ ChainReturn
    \/ PrintResults

Spec == Init /\ [][Next]_vars

\* the interpreter runs the next statement, and an outbound call comes back
FairSpec == Init /\ [][Next]_vars /\ WF_vars(Next)

(* ---------------------- vocabulary of the properties ------------------ *)
\* the prompt of stage i has been built
Built(i) == i < stage \/ (i = stage /\ pc \in {"call", "await", "append", "store", "return", "done"})

\* the executor has returned for stage i
Returned(i) == i < stage \/ (i = stage /\ pc \in {"append", "store", "return", "done"})

IsError(s) == s # <<>> /\ Head(s) = "ERROR"

StageKeys == <<"stage_1_output", "stage_2_output", "stage_3_output", "stage_4_output">>

Blank(t) == t = NoText \/ \A i \in 1..Len(t) : t[i] \in Whitespace

\* r is t without its leading and trailing whitespace
IsTrimOf(r, t) ==
    /\ r # <<>>
    /\ r[1] \notin Whitespace
    /\ r[Len(r)] \notin Whitespace
    /\ \E i \in 0..Len(t) : \E j \in i..Len(t) :
          /\ SubSeq(t, i + 1, j) = r
          /\ \A k \in 1..i : t[k] \in Whitespace
          /\ \A k \in (j + 1)..Len(t) : t[k] \in Whitespace

\* the pairs <<k, j>> such that the template of stage j reads the output of stage k
Feeds == {<<1, 2>>, <<1, 3>>, <<1, 4>>, <<1, 5>>, <<2, 3>>, <<3, 4>>, <<3, 5>>, <<4, 5>>}

(* ------------------------------- C1 ----------------------------------- *)
\* C1: the list run_prompt_chain returns has exactly five elements and its
\* element at position i is the string the executor returned for stage i,
\* whatever the executor returned (text, exception string, empty-response
\* sentinel, not-initialized sentinel); while the chain runs, the results
\* so far are the executor's return values in stage order.
C1_ResultsPositional ==
    /\ \A i \in 1..Len(results) : Returned(i) /\ results[i] = stage_output[i]
    /\ pc = "done" => /\ Len(output) = 5
                      /\ \A i \in Stages : output[i] = stage_output[i]

C1_Witness ==
    /\ pc = "done"
    /\ output[1] = <<"a">>
    /\ output[2] = EmptyResponse
    /\ output[3] = <<"ERROR", " in LLM call: ", "timed out">>
    /\ output[4] = <<"a", "a">>
    /\ output[5] = <<"a">>

(* ------------------------------- C2 ----------------------------------- *)
\* C2: a started chain always reaches Done with a list of length five; no
\* state of the chain is a terminal error state, and when the chain is Done
\* every one of the five prompts has been built and, with a client, every
\* one of the five stages has been invoked, error sentinels or not.
C2_AlwaysReachesDone ==
    /\ [](pc # "crashed")
    /\ [](pc = "done" => /\ Len(output) = 5
                         /\ \A i \in Stages : prompts[i] # <<>>
                         /\ client # "None" => Len(calls) = 5)
    /\ (pc = "start") ~> (pc = "done" /\ Len(output) = 5)

C2_Witness ==
    /\ pc = "done"
    /\ IsError(output[2])
    /\ ~IsError(output[3])
    /\ Len(output) = 5
    /\ Len(calls) = 5

(* ------------------------------- C3 ----------------------------------- *)
\* C3: inside a chain run the context starts as {customer_query}, holds
\* exactly customer_query and stage_i_output for the completed stages i,
\* each with the value stage i produced; a key once written keeps its value
\* and is never removed, at most one key is added per step; and when a
\* prompt is about to be built every key its template reads is present, so
\* the builder never raises a key-lookup error.
C3_ContextAppendOnly ==
    /\ [](pc \in {"build", "call", "await", "append", "store", "return", "done"} =>
            /\ DOMAIN chain_context = {"customer_query"} \cup {StageKeys[i] : i \in 1..(stage - 1)}
            /\ chain_context["customer_query"] = customer_query
            /\ \A i \in 1..(stage - 1) : chain_context[StageKeys[i]] = results[i])
    /\ [](pc = "build" => RequiredKeys(stage) \subseteq DOMAIN chain_context)
    /\ [](pc # "crashed")
    /\ [][pc \notin {"idle", "start"} =>
            /\ \A k \in DOMAIN chain_context :
                  k \in DOMAIN chain_context' /\ chain_context'[k] = chain_context[k]
            /\ Cardinality(DOMAIN chain_context') <= Cardinality(DOMAIN chain_context) + 1]_vars

C3_Witness ==
    /\ pc = "build"
    /\ stage = 5
    /\ DOMAIN chain_context = {"customer_query", "stage_1_output", "stage_2_output",
                               "stage_3_output", "stage_4_output"}
    /\ chain_context["stage_1_output"] # chain_context["stage_2_output"]

(* ------------------------------- C4 ----------------------------------- *)
\* C4: the prompt built for stage 1 contains the customer query, for stage 2
\* the stage-1 result, for stage 3 the stage-1 and stage-2 results, for
\* stage 4 the stage-1 and stage-3 results, for stage 5 the stage-1, stage-3
\* and stage-4 results, each as a substring, and that prompt is the one sent
\* with the stage's outbound request.
C4_ContextThreading ==
    /\ Built(1) => Contains(prompts[1], customer_query)
    /\ Built(2) => Contains(prompts[2], results[1])
    /\ Built(3) => Contains(prompts[3], results[1]) /\ Contains(prompts[3], results[2])
    /\ Built(4) => Contains(prompts[4], results[1]) /\ Contains(prompts[4], results[3])
    /\ Built(5) => /\ Contains(prompts[5], results[1])
                   /\ Contains(prompts[5], results[3])
                   /\ Contains(prompts[5], results[4])
    /\ \A n \in 1..Len(calls) : calls[n].contents = prompts[calls[n].stage]

C4_Witness ==
    /\ Built(5)
    /\ results[1] = <<"a">>
    /\ results[2] = <<"ERROR", " in LLM call: ", "429 quota exceeded">>
    /\ results[3] = <<"a", "a">>
    /\ results[4] = EmptyResponse
    /\ Len(calls) = 5

(* ------------------------------- C5 ----------------------------------- *)
\* C5: while the client handle is None no outbound call is ever made, every
\* return of the executor is the not-initialized sentinel, and a chain run
\* returns that sentinel in all five positions.
C5_ClientUnsetShortCircuits ==
    client = "None" =>
        /\ calls = <<>>
        /\ outcome = Pending
        /\ pc # "await"
        /\ \A i \in Stages : Returned(i) =>
              stage_output[i] = <<"ERROR", ": Gemini client not initialized. Check API key.">>
        /\ pc = "done" =>
              output = [i \in 1..5 |-> <<"ERROR", ": Gemini client not initialized. Check API key.">>]

C5_Witness ==
    /\ client = "None"
    /\ pc = "done"
    /\ Len(output) = 5
    /\ calls = <<>>

(* ------------------------------- C6 ----------------------------------- *)
\* C6: when the outbound call raises, the executor returns "ERROR in LLM
\* call: " followed by the exception's message, which the string therefore
\* contains; the exception does not leave the executor, the orchestrator
\* appends the string and goes on to the next step, and the client handle,
\* once bound at startup, never changes.
C6_ExceptionBecomesString ==
    /\ [](pc = "append" /\ outcome.kind = "raise" =>
            /\ stage_output[stage] = <<"ERROR", " in LLM call: ">> \o outcome.val
            /\ Contains(stage_output[stage], outcome.val))
    /\ [](pc # "crashed")
    /\ [](outcome.kind = "raise" => pc = "append")
    /\ [][pc = "append" /\ outcome.kind = "raise" =>
            /\ results' = Append(results, <<"ERROR", " in LLM call: ">> \o outcome.val)
            /\ pc' = IF stage = 5 THEN "return" ELSE "store"]_vars
    /\ [][proc # "startup" => client' = client]_vars

C6_Witness ==
    /\ pc = "append"
    /\ outcome = [kind |-> "raise", val |-> <<"timed out">>]
    /\ stage = 3
    /\ stage_output[3] = <<"ERROR", " in LLM call: ", "timed out">>

(* ------------------------------- C7 ----------------------------------- *)
\* C7: when the outbound call returns text that is missing, empty or all
\* whitespace the executor returns the empty-response sentinel, otherwise it
\* returns the text without its leading and trailing whitespace; every stage
\* result is a non-empty string that begins with "ERROR" or is text with no
\* whitespace at either end.
C7_EmptyOrTrimmed ==
    /\ pc = "append" /\ outcome.kind = "text" =>
          IF Blank(outcome.val)
          THEN stage_output[stage] =
                  <<"ERROR", " in LLM call: ", "Received empty or invalid response text.">>
          ELSE IsTrimOf(stage_output[stage], outcome.val)
    /\ \A i \in 1..Len(results) :
          /\ results[i] # <<>>
          /\ \/ IsError(results[i])
             \/ /\ \A k \in 1..Len(results[i]) : results[i][k] \in Alphabet
                /\ results[i][1] \notin Whitespace
                /\ results[i][Len(results[i])] \notin Whitespace

C7_Witness ==
    /\ pc = "append"
    /\ stage = 3
    /\ outcome = [kind |-> "text", val |-> <<"a", " ">>]
    /\ stage_output[3] = <<"a">>
    /\ results[1] = EmptyResponse
    /\ results[2] = <<"a", "a">>

(* ------------------------------- C8 ----------------------------------- *)
\* the labeled pair of lines of stage i follows the heading in the printed output
PrintedLabeled(i, text) ==
    \E n \in 1..(Len(printed) - 1) :
        /\ printed[n] = <<"  ">> \o stage_names[i] \o <<":">>
        /\ printed[n + 1] = <<"    -> ">> \o text

\* C8 as stated: after a failed client construction the entry point still
\* runs the chain and prints the five labeled results, each the
\* not-initialized sentinel.
C8_DegradedMainPrintsResults ==
    entry = "main" /\ client = "None" /\ proc = "exit" =>
        /\ pc = "done"
        /\ \A i \in Stages : PrintedLabeled(i, NotInitialized)

\* C8 amended: after a failed client construction the process continues to
\* its end, but the entry point does not run the chain: it prints the
\* skip notice, no stage result and makes no outbound call; with a client
\* the entry point runs the chain and prints the five labeled results,
\* error sentinels included.
C8_MainSkipsChainWhenClientUnset ==
    entry = "main" /\ proc = "exit" =>
        IF client = "None"
        THEN /\ pc = "idle"
             /\ results = <<>>
             /\ output = <<>>
             /\ calls = <<>>
             /\ printed[Len(printed)] = <<"Skipping execution due to Gemini client initialization error.">>
             /\ \A n \in 1..Len(printed) : Head(printed[n]) # "    -> "
        ELSE /\ pc = "done"
             /\ Len(output) = 5
             /\ \A i \in Stages : PrintedLabeled(i, output[i])
             /\ Cardinality({n \in 1..Len(printed) : Head(printed[n]) = "    -> "}) = 5

C8_Witness ==
    /\ entry = "main"
    /\ client = "None"
    /\ proc = "exit"
    /\ Len(printed) = 5

(* ------------------------------- C9 ----------------------------------- *)
\* C9 as stated: an error string produced at stage k is carried by the
\* prompt of every later stage j, k < j <= 5.
C9_ErrorInEveryLaterPrompt ==
    \A k \in 1..4 : \A j \in (k + 1)..5 :
        Built(j) /\ IsError(results[k]) => Contains(prompts[j], results[k])

\* C9 amended: an error string produced at stage k is carried by the prompt
\* of every later stage whose template reads stage k's output: stage 1's by
\* the prompts of stages 2 to 5, stage 2's by the prompt of stage 3, stage
\* 3's by the prompts of stages 4 and 5, stage 4's by the prompt of stage 5.
C9_ErrorInDependentPrompts ==
    \A f \in Feeds :
        Built(f[2]) /\ IsError(results[f[1]]) => Contains(prompts[f[2]], results[f[1]])

C9_Witness ==
    /\ Built(5)
    /\ results[2] = <<"ERROR", " in LLM call: ", "timed out">>
    /\ ~IsError(results[1])
    /\ ~IsError(results[3])
    /\ ~IsError(results[4])
    /\ ~Contains(prompts[4], results[2])
    /\ Contains(prompts[3], results[2])

(* ------------------------------- C10 ---------------------------------- *)
\* C10: with a client, the n-th outbound request of a run is the request of
\* stage n, carrying the prompt of stage n and temperature 0; there is one
\* request per invoked stage and five when the chain is Done; and a request
\* for stage n > 1 exists only once the result of stage n-1 is in the
\* results list and in the context, no outcome of an earlier request being
\* still open when a request is in flight.
C10_OneRequestPerStageInOrder ==
    client # "None" =>
        /\ \A n \in 1..Len(calls) :
              /\ calls[n].stage = n
              /\ calls[n].contents = prompts[n]
              /\ calls[n].temperature = 0
              /\ n > 1 => /\ Len(results) >= n - 1
                          /\ StageKeys[n - 1] \in DOMAIN chain_context
                          /\ chain_context[StageKeys[n - 1]] = results[n - 1]
        /\ Len(calls) = IF pc \in {"idle", "start"} THEN 0
                        ELSE IF pc \in {"build", "call"} THEN stage - 1
                        ELSE stage
        /\ pc = "await" => outcome = Pending /\ Len(results) = stage - 1
        /\ pc = "done" => Len(calls) = 5

C10_Witness ==
    /\ client = "Client"
    /\ pc = "await"
    /\ stage = 4
    /\ Len(calls) = 4
    /\ IsError(results[3])
    /\ chain_context["stage_3_output"] = results[3]

====
